---- MODULE Spec2Model ----
(***************************************************************************)
(* Model of src/main.rs of rust_baseball_stats: a CSV of per-season        *)
(* batting lines is deserialized row by row, each raw row is cleaned       *)
(* (string-typed numbers become Option<u32> / Option<f64>), the cleaned    *)
(* seasons are grouped by the player's link in a HashMap, every group is   *)
(* folded into one AggregatedPlayer, and the selected command prints a     *)
(* "top 10" table taken from a stable descending sort.                     *)
(*                                                                         *)
(* Representation.                                                         *)
(*   - a Rust String that the program parses (rbi, stolen_bases, ...) is   *)
(*     a sequence of one-character strings; position and team, which are   *)
(*     only compared and joined, are TLA+ strings;                         *)
(*   - Option<T> is a sequence of length 0 (None) or 1 (Some(v));          *)
(*   - a u32 is a pair <<hi, lo>> of 16-bit limbs, value hi * 2^16 + lo,   *)
(*     so that the full 32-bit width is kept although TLC's integers stop  *)
(*     at 2^31 - 1; an unreduced sum has hi >= 2^16;                       *)
(*   - an f64 obtained from a decimal literal is [neg, mant, scale], the   *)
(*     value (-1)^neg * mant / 10^scale with trailing zeros of the         *)
(*     fraction removed; strikeouts, which are whole counts, are Nats.     *)
(***************************************************************************)
EXTENDS Integers, Sequences, FiniteSets, TLC

(***************************************************************************)
(* Bounds of the model                                                     *)
(***************************************************************************)
\* rows of the CSV file read by the pipeline specification
MaxRows == 3
\* distinct player links occurring in the CSV file of the pipeline
MaxLinks == 2
\* length of the generated field strings of the cleaning specification
MaxLen == 3
\* season records of the ranking specification
MaxRecs == 11
\* rows of the ranking specification that carry the second batting line
MaxSecond == 2
\* number of buckets the modelled hash spreads the links over
HashMod == 13

(***************************************************************************)
(* Program constants                                                       *)
(***************************************************************************)
\* the slice [0..10] of every report
TopK == 10
\* diagnostics are printed for the first 5 deserialization errors
MaxDiagnostics == 5

(***************************************************************************)
(* Option<T>                                                               *)
(***************************************************************************)
None == << >>
Some(v) == << v >>
unwrap_or(o, d) == IF o = None THEN d ELSE o[1]

(***************************************************************************)
(* u32 as two 16-bit limbs                                                 *)
(***************************************************************************)
Limb == 2 ^ 16
U32(n) == << n \div Limb, n % Limb >>
U32Max == << Limb - 1, Limb - 1 >>
\* the mathematical sum of two limb pairs (hi is not reduced)
AddMath(a, b) ==
    LET lo == a[2] + b[2]
    IN  << a[1] + b[1] + (lo \div Limb), lo % Limb >>
FitsU32(v) == v[1] < Limb
Wrap32(v) == << v[1] % Limb, v[2] >>
\* u32::cmp
Lt32(a, b) == a[1] < b[1] \/ (a[1] = b[1] /\ a[2] < b[2])
Le32(a, b) == a = b \/ Lt32(a, b)

(***************************************************************************)
(* str::trim and str::parse                                                *)
(***************************************************************************)
DigitChars == << "0", "1", "2", "3", "4", "5", "6", "7", "8", "9" >>
IsDigit(c) == \E i \in 1..10 : DigitChars[i] = c
DigitVal(c) == (CHOOSE i \in 1..10 : DigitChars[i] = c) - 1
IsSpace(c) == c = " "

RECURSIVE trim_start(_)
trim_start(s) ==
    IF s # << >> /\ IsSpace(Head(s)) THEN trim_start(Tail(s)) ELSE s

RECURSIVE trim_end(_)
trim_end(s) ==
    IF s # << >> /\ IsSpace(s[Len(s)])
    THEN trim_end(SubSeq(s, 1, Len(s) - 1))
    ELSE s

\* str::trim
trim(s) == trim_end(trim_start(s))

\* the digit loop of u32::from_str: checked_mul(10) then checked_add(digit);
\* acc is Some(value so far), None once a character is no digit or the
\* value has left the u32 range
RECURSIVE ParseDigitsU32(_, _)
ParseDigitsU32(s, acc) ==
    IF s = << >> \/ acc = None THEN acc
    ELSE IF ~IsDigit(Head(s)) THEN None
    ELSE LET lo == acc[1][2] * 10 + DigitVal(Head(s))
             hi == acc[1][1] * 10 + (lo \div Limb)
         IN  IF hi >= Limb THEN None
             ELSE ParseDigitsU32(Tail(s), Some(<< hi, lo % Limb >>))

\* str::parse::<u32>().ok(): an optional "+", then at least one digit
ParseU32(s) ==
    LET body == IF s # << >> /\ Head(s) = "+" THEN Tail(s) ELSE s
    IN  IF body = << >> THEN None ELSE ParseDigitsU32(body, Some(U32(0)))

\* removes the trailing zeros of the fraction
RECURSIVE NormF64(_)
NormF64(f) ==
    IF f.scale > 0 /\ f.mant % 10 = 0
    THEN NormF64([f EXCEPT !.mant = f.mant \div 10, !.scale = f.scale - 1])
    ELSE f

\* digits with at most one "."; acc is Some([neg, mant, scale, dot, n]) with
\* dot = a "." was read and n = digits read, None once the text is rejected
RECURSIVE ParseDecimal(_, _)
ParseDecimal(s, acc) ==
    IF s = << >> \/ acc = None THEN acc
    ELSE LET a == acc[1]
             c == Head(s)
         IN  IF c = "." /\ ~a.dot
             THEN ParseDecimal(Tail(s), Some([a EXCEPT !.dot = TRUE]))
             ELSE IF IsDigit(c)
             THEN ParseDecimal(Tail(s),
                      Some([a EXCEPT !.mant = a.mant * 10 + DigitVal(c),
                                     !.scale = IF a.dot THEN a.scale + 1 ELSE a.scale,
                                     !.n = a.n + 1]))
             ELSE None

\* str::parse::<f64>().ok() on the decimal literals Sign? (Digit+ | Digit+ "."
\* Digit* | Digit* "." Digit+); exponents and inf / nan need letters the
\* generated strings do not contain
ParseF64(s) ==
    LET signed == s # << >> /\ Head(s) \in {"+", "-"}
        body == IF signed THEN Tail(s) ELSE s
        r == ParseDecimal(body,
                 Some([neg |-> signed /\ Head(s) = "-", mant |-> 0, scale |-> 0,
                       dot |-> FALSE, n |-> 0]))
    IN  IF r = None \/ r[1].n = 0 THEN None
        ELSE Some(NormF64([neg |-> r[1].neg, mant |-> r[1].mant,
                           scale |-> r[1].scale]))

Sentinel == << "-", "-" >>

\* a variant that parses the text as it stands, without trimming it; C1
\* tells it from parse_optional_number
parse_untrimmed_number(value) ==
    IF value = Sentinel \/ trim(value) = << >>
    THEN None
    ELSE ParseU32(value)

parse_optional_number(value) ==
    IF value = Sentinel \/ trim(value) = << >>
    THEN None
    ELSE ParseU32(trim(value))

parse_optional_float(value) ==
    IF value = Sentinel \/ trim(value) = << >>
    THEN None
    ELSE ParseF64(trim(value))

clean_player_data(raw) ==
    [ season |-> raw.season,
      first_name |-> raw.first_name,
      last_name |-> raw.last_name,
      link |-> raw.link,
      position |-> raw.position,
      team |-> raw.team,
      games_played |-> raw.games_played,
      at_bats |-> raw.at_bats,
      runs |-> raw.runs,
      hits |-> raw.hits,
      doubles |-> raw.doubles,
      triples |-> raw.triples,
      homeruns |-> raw.homeruns,
      rbi |-> parse_optional_number(raw.rbi),
      walks |-> raw.walks,
      strikeouts |-> raw.strikeouts,
      stolen_bases |-> parse_optional_number(raw.stolen_bases),
      caught_stealing |-> parse_optional_number(raw.caught_stealing),
      batting_average |-> raw.batting_average,
      on_base_percentage |-> parse_optional_float(raw.on_base_percentage),
      slugging_percentage |-> raw.slugging_percentage,
      on_base_plus_slugging |-> parse_optional_float(raw.on_base_plus_slugging) ]

(***************************************************************************)
(* Grouping by link in a HashMap (lines 202-209)                           *)
(***************************************************************************)
\* a variant that inserts a fresh Vec for every record, so that a group keeps
\* its last season only; C3 tells it from GroupInto
RECURSIVE GroupIntoFresh(_, _)
GroupIntoFresh(recs, groups) ==
    IF recs = << >> THEN groups
    ELSE LET player == Head(recs)
             link == player.link
         IN  GroupIntoFresh(Tail(recs),
                 IF link \in DOMAIN groups
                 THEN [groups EXCEPT ![link] = << player >>]
                 ELSE groups @@ (link :> << player >>))

\* player_groups.entry(link).or_insert(Vec::new()).push(player.clone()),
\* for every record of recs in order, starting from the map groups
RECURSIVE GroupInto(_, _)
GroupInto(recs, groups) ==
    IF recs = << >> THEN groups
    ELSE LET player == Head(recs)
             link == player.link
         IN  GroupInto(Tail(recs),
                 IF link \in DOMAIN groups
                 THEN [groups EXCEPT ![link] = Append(@, player)]
                 ELSE groups @@ (link :> << player >>))

EmptyMap == [l \in {} |-> << >>]

\* A HashMap iterates in the order of its buckets, which is fixed by the
\* hashes of the keys under the map's RandomState: a link (a number standing
\* for the String) falls in bucket (link * (seed + 1)) % HashMod, and links
\* in one bucket are visited in ascending order.
Bucket(link, seed) == (link * (seed + 1)) % HashMod
HashBefore(a, b, seed) ==
    \/ Bucket(a, seed) < Bucket(b, seed)
    \/ (Bucket(a, seed) = Bucket(b, seed) /\ a < b)

RECURSIVE IterOrder(_, _)
IterOrder(keys, seed) ==
    IF keys = {} THEN << >>
    ELSE LET k == CHOOSE a \in keys : \A b \in keys \ {a} : HashBefore(a, b, seed)
         IN  << k >> \o IterOrder(keys \ {k}, seed)

(***************************************************************************)
(* One AggregatedPlayer per group (lines 218-280)                          *)
(***************************************************************************)
\* a variant that takes the season of the group's first record; C4 tells it
\* from MinSeason
FirstRecordSeason(seasons) == seasons[1].season

\* seasons.iter().map(|s| s.season).min() / .max()
RECURSIVE MinSeason(_)
MinSeason(seasons) ==
    IF Len(seasons) = 1 THEN seasons[1].season
    ELSE LET m == MinSeason(Tail(seasons))
         IN  IF Le32(seasons[1].season, m) THEN seasons[1].season ELSE m

RECURSIVE MaxSeason(_)
MaxSeason(seasons) ==
    IF Len(seasons) = 1 THEN seasons[1].season
    ELSE LET m == MaxSeason(Tail(seasons))
         IN  IF Lt32(m, seasons[1].season) THEN seasons[1].season ELSE m

Contains(vec, v) == \E i \in 1..Len(vec) : vec[i] = v

\* a variant that pushes every value, seen before or not; C10 tells it from
\* UniqueValues
RECURSIVE EveryValue(_, _, _)
EveryValue(seasons, field, unique) ==
    IF seasons = << >> THEN unique
    ELSE EveryValue(Tail(seasons), field, Append(unique, Head(seasons)[field]))

\* the loop of lines 230-237 for one of the two fields
RECURSIVE UniqueValues(_, _, _)
UniqueValues(seasons, field, unique) ==
    IF seasons = << >> THEN unique
    ELSE UniqueValues(Tail(seasons), field,
             IF ~Contains(unique, Head(seasons)[field])
             THEN Append(unique, Head(seasons)[field])
             ELSE unique)

\* [String]::join
RECURSIVE Join(_, _)
Join(vec, sep) ==
    IF vec = << >> THEN ""
    ELSE IF Len(vec) = 1 THEN vec[1]
    ELSE vec[1] \o sep \o Join(Tail(vec), sep)

\* the mathematical value of seasons.iter().map(|s| s.field).sum::<u32>()
RECURSIVE SumField(_, _)
SumField(seasons, field) ==
    IF seasons = << >> THEN U32(0)
    ELSE AddMath(Head(seasons)[field], SumField(Tail(seasons), field))

\* ... of seasons.iter().map(|s| s.field.unwrap_or(0)).sum::<u32>()
RECURSIVE SumOptField(_, _)
SumOptField(seasons, field) ==
    IF seasons = << >> THEN U32(0)
    ELSE AddMath(unwrap_or(Head(seasons)[field], U32(0)),
                 SumOptField(Tail(seasons), field))

\* seasons.iter().map(|s| s.strikeouts.unwrap_or(0.0)).sum::<f64>()
RECURSIVE SumStrikeouts(_)
SumStrikeouts(seasons) ==
    IF seasons = << >> THEN 0
    ELSE unwrap_or(Head(seasons).strikeouts, 0) + SumStrikeouts(Tail(seasons))

CountingStats ==
    { "games_played", "at_bats", "runs", "hits", "doubles", "triples",
      "homeruns", "walks" }
OptionalStats == { "rbi", "stolen_bases", "caught_stealing" }

\* some u32 total of the group leaves the 32-bit range
SumOverflows(seasons) ==
    \/ \E f \in CountingStats : ~FitsU32(SumField(seasons, f))
    \/ \E f \in OptionalStats : ~FitsU32(SumOptField(seasons, f))

\* the u32 that a build without overflow checks leaves in the total
WrappedSum(total) == Wrap32(total)

AggregatePlayer(link, seasons) ==
    LET first_season_record == seasons[1]
    IN  [ link |-> link,
          first_name |-> unwrap_or(first_season_record.first_name, "N/A"),
          last_name |-> first_season_record.last_name,
          first_season |-> MinSeason(seasons),
          last_season |-> MaxSeason(seasons),
          seasons_played |-> U32(Len(seasons)),
          positions |-> Join(UniqueValues(seasons, "position", << >>), ", "),
          teams |-> Join(UniqueValues(seasons, "team", << >>), ", "),
          total_games_played |-> WrappedSum(SumField(seasons, "games_played")),
          total_at_bats |-> WrappedSum(SumField(seasons, "at_bats")),
          total_runs |-> WrappedSum(SumField(seasons, "runs")),
          total_hits |-> WrappedSum(SumField(seasons, "hits")),
          total_doubles |-> WrappedSum(SumField(seasons, "doubles")),
          total_triples |-> WrappedSum(SumField(seasons, "triples")),
          total_homeruns |-> WrappedSum(SumField(seasons, "homeruns")),
          total_rbi |-> WrappedSum(SumOptField(seasons, "rbi")),
          total_walks |-> WrappedSum(SumField(seasons, "walks")),
          total_strikeouts |-> SumStrikeouts(seasons),
          total_stolen_bases |-> WrappedSum(SumOptField(seasons, "stolen_bases")),
          total_caught_stealing |->
              WrappedSum(SumOptField(seasons, "caught_stealing")) ]

\* the loop of line 218 over the links in iteration order; with overflow
\* checks (a debug build) it stops at the first group whose sum overflows
RECURSIVE AggregateLoop(_, _, _, _)
AggregateLoop(order, groups, checks, done) ==
    IF order = << >> THEN [ panicked |-> FALSE, players |-> done ]
    ELSE IF checks /\ SumOverflows(groups[Head(order)])
    THEN [ panicked |-> TRUE, players |-> done ]
    ELSE AggregateLoop(Tail(order), groups, checks,
             Append(done, AggregatePlayer(Head(order), groups[Head(order)])))

(***************************************************************************)
(* Ranking: a stable descending sort and the slice [0..10]                 *)
(***************************************************************************)
\* a variant that puts x in front of the elements with the same metric (an
\* unstable sort); C6 tells it from InsertRanked
RECURSIVE InsertBeforeTies(_, _, _)
InsertBeforeTies(sorted, x, metric) ==
    IF sorted = << >> THEN << x >>
    ELSE IF Le32(Head(sorted)[metric], x[metric])
    THEN << x >> \o sorted
    ELSE << Head(sorted) >> \o InsertBeforeTies(Tail(sorted), x, metric)

\* a variant that compares a with b instead of b with a (an ascending sort);
\* C9 tells it from InsertRanked
RECURSIVE InsertAscending(_, _, _)
InsertAscending(sorted, x, metric) ==
    IF sorted = << >> THEN << x >>
    ELSE IF Lt32(x[metric], Head(sorted)[metric])
    THEN << x >> \o sorted
    ELSE << Head(sorted) >> \o InsertAscending(Tail(sorted), x, metric)

\* where a stable sort by |a, b| b.metric.cmp(&a.metric) puts x, which comes
\* after every element of sorted in the input: behind all elements whose
\* metric is not smaller
RECURSIVE InsertRanked(_, _, _)
InsertRanked(sorted, x, metric) ==
    IF sorted = << >> THEN << x >>
    ELSE IF Lt32(Head(sorted)[metric], x[metric])
    THEN << x >> \o sorted
    ELSE << Head(sorted) >> \o InsertRanked(Tail(sorted), x, metric)

RECURSIVE SortFrom(_, _, _)
SortFrom(items, metric, sorted) ==
    IF items = << >> THEN sorted
    ELSE SortFrom(Tail(items), metric, InsertRanked(sorted, Head(items), metric))

\* let mut sorted = items.clone(); sorted.sort_by(...)
sort_by(items, metric) == SortFrom(items, metric, << >>)

\* a variant that takes what there is when there are fewer than 10 records;
\* C5 tells it from TopTen
TopTenOrFewer(sorted) ==
    Some(SubSeq(sorted, 1, IF Len(sorted) < TopK THEN Len(sorted) ELSE TopK))

\* &sorted[0..10]: None stands for the panic of a slice index out of range
TopTen(sorted) ==
    IF Len(sorted) < TopK THEN None ELSE Some(SubSeq(sorted, 1, TopK))

(***************************************************************************)
(* Inputs                                                                  *)
(***************************************************************************)
\* the f64 of a decimal literal with scale digits after the point
F64(mant, scale) == NormF64([neg |-> FALSE, mant |-> mant, scale |-> scale])

\* the columns of a row other than link: three batting lines that differ in
\* season, name, position, team and the way a missing or dirty value is
\* written; the third has 2^31 walks and 2^32 - 1 caught_stealing, so that
\* two of them overflow a u32
StatLines ==
    << [ season |-> U32(1920), first_name |-> Some("Babe"), last_name |-> "Ruth",
         position |-> "OF", team |-> "NYY",
         games_played |-> U32(142), at_bats |-> U32(458), runs |-> U32(158),
         hits |-> U32(172), doubles |-> U32(36), triples |-> U32(9),
         homeruns |-> U32(54), rbi |-> << "8", "8" >>, walks |-> U32(150),
         strikeouts |-> Some(80), stolen_bases |-> << " ", "1", "4" >>,
         caught_stealing |-> << "+", "0" >>,
         batting_average |-> F64(376, 3),
         on_base_percentage |-> << ".", "5", "3", "2" >>,
         slugging_percentage |-> F64(847, 3),
         on_base_plus_slugging |-> << "1", ".", "3", "7", "9" >> ],
       [ season |-> U32(1921), first_name |-> None, last_name |-> "Ruth",
         position |-> "P", team |-> "NYY",
         games_played |-> U32(152), at_bats |-> U32(540), runs |-> U32(177),
         hits |-> U32(204), doubles |-> U32(44), triples |-> U32(16),
         homeruns |-> U32(59), rbi |-> << "-", "-" >>, walks |-> U32(145),
         strikeouts |-> None, stolen_bases |-> << " " >>,
         caught_stealing |-> << >>,
         batting_average |-> F64(378, 3),
         on_base_percentage |-> << "-", "-" >>,
         slugging_percentage |-> F64(846, 3),
         on_base_plus_slugging |-> << " ", " " >> ],
       [ season |-> U32(1927), first_name |-> Some("George"), last_name |-> "Ruth",
         position |-> "OF", team |-> "BOS",
         games_played |-> U32(151), at_bats |-> U32(540), runs |-> U32(158),
         hits |-> U32(192), doubles |-> U32(29), triples |-> U32(8),
         homeruns |-> U32(60), rbi |-> << "a", "b", "c" >>,
         walks |-> << Limb \div 2, 0 >>,
         strikeouts |-> Some(89),
         stolen_bases |-> << "4", "2", "9", "4", "9", "6", "7", "2", "9", "6" >>,
         caught_stealing |-> << "4", "2", "9", "4", "9", "6", "7", "2", "9", "5" >>,
         batting_average |-> F64(356, 3),
         on_base_percentage |-> << "n", "/", "a" >>,
         slugging_percentage |-> F64(772, 3),
         on_base_plus_slugging |-> << "-", "1", "." >> ] >>

\* a link is a number that stands for the String of the link column
Links == 1..MaxLinks

\* a row the reader deserializes into a PlayerSeason
RawRow(link, line) == [ link |-> link ] @@ line
RawRows == { RawRow(l, StatLines[p]) : l \in Links, p \in 1..Len(StatLines) }

OkRow(rec) == [ ok |-> TRUE, rec |-> << rec >> ]
ErrRow == [ ok |-> FALSE, rec |-> << >> ]

\* the seeds of the RandomState that are explored
Seeds == { 0, 1 }

(***************************************************************************)
(* State                                                                   *)
(***************************************************************************)
VARIABLES
    pc,                     \* where main is
    csv,                    \* the results the reader has yielded so far
    raw_records,            \* Vec<PlayerSeason>
    error_count,            \* rows that failed to deserialize
    diagnostics,            \* line numbers of the errors that were printed
    clean_records,          \* Vec<CleanPlayerSeason>
    player_groups,          \* HashMap<String, Vec<CleanPlayerSeason>>
    hash_seed,              \* the RandomState of player_groups
    aggregated_players,     \* Vec<AggregatedPlayer>
    command,                \* cli.command that the match of line 305 takes
    top_10_homeruns,        \* the tables that were printed, None if not
    top_10_career_homeruns,
    top_10_hits,
    top_10_career_games

vars ==
    << pc, csv, raw_records, error_count, diagnostics, clean_records,
       player_groups, hash_seed, aggregated_players, command, top_10_homeruns,
       top_10_career_homeruns, top_10_hits, top_10_career_games >>

ingest_vars == << csv, raw_records, error_count, diagnostics >>
table_vars ==
    << top_10_homeruns, top_10_career_homeruns, top_10_hits, top_10_career_games >>

Init ==
    /\ pc = "start"
    /\ csv = << >>
    /\ raw_records = << >>
    /\ error_count = 0
    /\ diagnostics = << >>
    /\ clean_records = << >>
    /\ player_groups = EmptyMap
    /\ hash_seed = 0
    /\ aggregated_players = << >>
    /\ command = None
    /\ top_10_homeruns = None
    /\ top_10_career_homeruns = None
    /\ top_10_hits = None
    /\ top_10_career_games = None

(***************************************************************************)
(* main                                                                    *)
(***************************************************************************)
\* lines 132-135: the file is not there, main returns Ok(())
MissingFile ==
    /\ pc = "start"
    /\ pc' = "done"
    /\ UNCHANGED << ingest_vars, clean_records, player_groups, hash_seed,
                    aggregated_players, command, table_vars >>

\* lines 138-144
OpenFile ==
    /\ pc = "start"
    /\ pc' = "read"
    /\ UNCHANGED << ingest_vars, clean_records, player_groups, hash_seed,
                    aggregated_players, command, table_vars >>

\* lines 149-152: the next row deserializes
ReadOk ==
    /\ pc = "read"
    /\ Len(csv) < MaxRows
    /\ \E player \in RawRows :
          /\ csv' = Append(csv, OkRow(player))
          /\ raw_records' = Append(raw_records, player)
    /\ UNCHANGED << pc, error_count, diagnostics, clean_records, player_groups,
                    hash_seed, aggregated_players, command, table_vars >>

\* a variant in which the first row that does not deserialize ends main with
\* the error; C8 tells it from ReadErr
ReadErrAborts ==
    /\ pc = "read"
    /\ Len(csv) < MaxRows
    /\ csv' = Append(csv, ErrRow)
    /\ pc' = "panicked"
    /\ UNCHANGED << raw_records, error_count, diagnostics, clean_records,
                    player_groups, hash_seed, aggregated_players, command,
                    table_vars >>

\* lines 153-158: the next row does not deserialize
ReadErr ==
    /\ pc = "read"
    /\ Len(csv) < MaxRows
    /\ csv' = Append(csv, ErrRow)
    /\ error_count' = error_count + 1
    /\ diagnostics' = IF error_count + 1 <= MaxDiagnostics
                      THEN Append(diagnostics, Len(csv) + 2)
                      ELSE diagnostics
    /\ UNCHANGED << pc, raw_records, clean_records, player_groups, hash_seed,
                    aggregated_players, command, table_vars >>

\* lines 166-171, once the reader is exhausted
Clean ==
    /\ pc = "read"
    /\ clean_records' =
           [ i \in 1..Len(raw_records) |-> clean_player_data(raw_records[i]) ]
    /\ pc' = "group"
    /\ UNCHANGED << ingest_vars, player_groups, hash_seed, aggregated_players,
                    command, table_vars >>

\* lines 202-209
Group ==
    /\ pc = "group"
    /\ \E seed \in Seeds : hash_seed' = seed
    /\ player_groups' = GroupInto(clean_records, EmptyMap)
    /\ pc' = "aggregate"
    /\ UNCHANGED << ingest_vars, clean_records, aggregated_players, command,
                    table_vars >>

\* lines 216-280; the sums panic on overflow in a build with overflow checks
\* and wrap in a build without
Aggregate ==
    /\ pc = "aggregate"
    /\ \E overflow_checks \in BOOLEAN :
          LET r == AggregateLoop(IterOrder(DOMAIN player_groups, hash_seed),
                                 player_groups, overflow_checks, << >>)
          IN  /\ aggregated_players' = r.players
              /\ pc' = IF r.panicked THEN "panicked" ELSE "report"
    /\ UNCHANGED << ingest_vars, clean_records, player_groups, hash_seed,
                    command, table_vars >>

\* lines 306-365
Homeruns ==
    /\ pc = "report"
    /\ command' = Some("homeruns")
    /\ top_10_homeruns' = TopTen(sort_by(clean_records, "homeruns"))
    /\ top_10_career_homeruns' =
           IF top_10_homeruns' = None THEN None
           ELSE TopTen(sort_by(aggregated_players, "total_homeruns"))
    /\ pc' = IF top_10_homeruns' = None \/ top_10_career_homeruns' = None
             THEN "panicked" ELSE "done"
    /\ UNCHANGED << ingest_vars, clean_records, player_groups, hash_seed,
                    aggregated_players, top_10_hits, top_10_career_games >>

\* lines 366-393
Seasons ==
    /\ pc = "report"
    /\ command' = Some("seasons")
    /\ top_10_hits' = TopTen(sort_by(clean_records, "hits"))
    /\ pc' = IF top_10_hits' = None THEN "panicked" ELSE "done"
    /\ UNCHANGED << ingest_vars, clean_records, player_groups, hash_seed,
                    aggregated_players, top_10_homeruns, top_10_career_homeruns,
                    top_10_career_games >>

\* lines 394-420
Careers ==
    /\ pc = "report"
    /\ command' = Some("careers")
    /\ top_10_career_games' =
           TopTen(sort_by(aggregated_players, "total_games_played"))
    /\ pc' = IF top_10_career_games' = None THEN "panicked" ELSE "done"
    /\ UNCHANGED << ingest_vars, clean_records, player_groups, hash_seed,
                    aggregated_players, top_10_homeruns, top_10_career_homeruns,
                    top_10_hits >>

\* lines 422-433: no subcommand, the usage text
Usage ==
    /\ pc = "report"
    /\ command' = Some("none")
    /\ pc' = "done"
    /\ UNCHANGED << ingest_vars, clean_records, player_groups, hash_seed,
                    aggregated_players, table_vars >>

Report == Homeruns \/ Seasons \/ Careers \/ Usage

Next ==
    \/ MissingFile
    \/ OpenFile
    \/ ReadOk
    \/ ReadErr
    \/ Clean
    \/ Group
    \/ Aggregate
    \/ Report

Spec == Init /\ [][Next]_vars

(***************************************************************************)
(* The cleaning of one row, over generated field strings                   *)
(***************************************************************************)
Alphabet == { " ", "-", "+", ".", "0", "8", "x" }
FieldStrings == UNION { [1..k -> Alphabet] : k \in 0..MaxLen }
IntFields == { "rbi", "stolen_bases", "caught_stealing" }
FloatFields == { "on_base_percentage", "on_base_plus_slugging" }
StringFields == IntFields \cup FloatFields

\* the reader has yielded one row, whose field f holds the text s
InitClean ==
    \E f \in StringFields, s \in FieldStrings, p \in 1..Len(StatLines) :
        LET player == RawRow(1, [StatLines[p] EXCEPT ![f] = s])
        IN  /\ pc = "read"
            /\ csv = << OkRow(player) >>
            /\ raw_records = << player >>
            /\ error_count = 0
            /\ diagnostics = << >>
            /\ clean_records = << >>
            /\ player_groups = EmptyMap
            /\ hash_seed = 0
            /\ aggregated_players = << >>
            /\ command = None
            /\ top_10_homeruns = None
            /\ top_10_career_homeruns = None
            /\ top_10_hits = None
            /\ top_10_career_games = None

NextClean == Clean

SpecClean == InitClean /\ [][NextClean]_vars

(***************************************************************************)
(* The reports, over files of up to MaxRecs rows                           *)
(***************************************************************************)
\* row i of the file: its own season, and one of two batting lines
RankedRow(i, link, b) ==
    RawRow(link,
        [StatLines[1] EXCEPT !.season = U32(1900 + i),
                             !.homeruns = U32(IF b = 0 THEN 25 ELSE 40),
                             !.hits = U32(IF b = 0 THEN 200 ELSE 150),
                             !.games_played = U32(IF b = 0 THEN 100 ELSE 150)])

\* the ways to give at most MaxSecond of n rows the second batting line
RECURSIVE LineChoices(_, _)
LineChoices(n, k) ==
    IF n = 0 THEN { << >> }
    ELSE { Append(b, 0) : b \in LineChoices(n - 1, k) }
         \cup (IF k = 0 THEN {}
               ELSE { Append(b, 1) : b \in LineChoices(n - 1, k - 1) })

\* the reader has yielded n rows that all deserialized; they belong to n
\* players, or to n - 1 of whom the first has two seasons
InitRank ==
    \E n \in 0..MaxRecs, dup \in {0, 1} :
      \E b \in LineChoices(n, MaxSecond) :
        \E m \in { IF n - dup >= 1 THEN n - dup ELSE 1 } :
        \E rows \in { [ i \in 1..n |-> RankedRow(i, ((i - 1) % m) + 1, b[i]) ] } :
            /\ pc = "read"
            /\ csv = [ i \in 1..n |-> OkRow(rows[i]) ]
            /\ raw_records = rows
            /\ error_count = 0
            /\ diagnostics = << >>
            /\ clean_records = << >>
            /\ player_groups = EmptyMap
            /\ hash_seed = 0
            /\ aggregated_players = << >>
            /\ command = None
            /\ top_10_homeruns = None
            /\ top_10_career_homeruns = None
            /\ top_10_hits = None
            /\ top_10_career_games = None

NextRank == Clean \/ Group \/ Aggregate \/ Report

SpecRank == InitRank /\ [][NextRank]_vars

(***************************************************************************)
(* Properties                                                              *)
(***************************************************************************)
\* the aggregation loop has run to its end
AggregationDone ==
    pc = "report" \/ (pc \in { "done", "panicked" } /\ command # None)

\* the indices of the season store whose record has the link
SeasonsOf(link) == { i \in 1..Len(clean_records) : clean_records[i].link = link }
StoreLinks == { clean_records[i].link : i \in 1..Len(clean_records) }

\* the elements of the set of indices idx, ascending
Ascending(idx) ==
    [ k \in 1..Cardinality(idx) |->
        CHOOSE i \in idx : Cardinality({ j \in idx : j < i }) = k - 1 ]

\* the player's season records in the order of the store
StoreSeasons(link) ==
    LET at == Ascending(SeasonsOf(link))
    IN  [ k \in 1..Len(at) |-> clean_records[at[k]] ]

\* ---------------------------------------------------------------- C8 ----
\* the records of the rows that deserialized, in the order of the file
WellFormed(file) ==
    LET at == Ascending({ i \in 1..Len(file) : file[i].ok })
    IN  [ k \in 1..Len(at) |-> file[at[k]].rec[1] ]

PassedThrough ==
    { "season", "first_name", "last_name", "link", "position", "team",
      "games_played", "at_bats", "runs", "hits", "doubles", "triples",
      "homeruns", "walks", "strikeouts", "batting_average",
      "slugging_percentage" }

\* the columns of the records that cleaning does not touch
Passed(records) ==
    [ i \in 1..Len(records) |-> [ f \in PassedThrough |-> records[i][f] ] ]

\* C8: a row that fails to deserialize is left out and counted, and aborts
\* nothing: at every point of the ingestion raw_records holds exactly the
\* well-formed rows read so far, in input order, error_count is the number
\* of malformed rows read so far, and once the ingestion is over the season
\* store holds one record per well-formed row, in the same order.
C8_MalformedRowsAreSkippedAndCounted ==
    /\ raw_records = WellFormed(csv)
    /\ error_count = Cardinality({ i \in 1..Len(csv) : ~csv[i].ok })
    /\ pc \notin { "start", "read" } =>
          Passed(clean_records) = Passed(WellFormed(csv))

\* a malformed row stands between two well-formed ones, and both are stored
C8_Witness ==
    /\ pc = "group"
    /\ Len(csv) = 3
    /\ csv[1].ok /\ ~csv[2].ok /\ csv[3].ok
    /\ Len(clean_records) = 2
    /\ error_count = 1

\* ---------------------------------------------------------------- C3 ----
\* C3: after aggregation there is exactly one career record per distinct
\* link of the season store, none for any other link, and its seasons_played
\* is the number of season records of the store with that link.
C3_OneCareerPerLinkWithItsSeasonCount ==
    AggregationDone =>
        /\ \A link \in StoreLinks :
              Cardinality({ j \in 1..Len(aggregated_players) :
                              aggregated_players[j].link = link }) = 1
        /\ \A j \in 1..Len(aggregated_players) :
              /\ aggregated_players[j].link \in StoreLinks
              /\ aggregated_players[j].seasons_played =
                     U32(Cardinality(SeasonsOf(aggregated_players[j].link)))

\* a player with two seasons and a player with a single one
C3_Witness ==
    /\ AggregationDone
    /\ \E j, k \in 1..Len(aggregated_players) :
          /\ aggregated_players[j].seasons_played = U32(2)
          /\ aggregated_players[k].seasons_played = U32(1)

\* ---------------------------------------------------------------- C4 ----
\* C4: first_season is the least and last_season the greatest season of the
\* player's season records, so first_season <= last_season, with equality
\* for a group of one season; and no group of the map is empty.
C4_FirstAndLastSeasonAreMinAndMax ==
    /\ \A link \in DOMAIN player_groups : Len(player_groups[link]) >= 1
    /\ AggregationDone =>
          \A j \in 1..Len(aggregated_players) :
             LET p == aggregated_players[j]
                 at == SeasonsOf(p.link)
             IN  /\ \E i \in at : clean_records[i].season = p.first_season
                 /\ \E i \in at : clean_records[i].season = p.last_season
                 /\ \A i \in at : /\ Le32(p.first_season, clean_records[i].season)
                                  /\ Le32(clean_records[i].season, p.last_season)
                 /\ Le32(p.first_season, p.last_season)
                 /\ Cardinality(at) = 1 => p.first_season = p.last_season

\* a player whose rows are not in the order of the seasons: 1927 is read
\* before 1920
C4_Witness ==
    /\ AggregationDone
    /\ \E j \in 1..Len(aggregated_players) :
          LET p == aggregated_players[j]
          IN  /\ p.first_season = U32(1920)
              /\ p.last_season = U32(1927)
              /\ StoreSeasons(p.link)[1].season = U32(1927)

\* --------------------------------------------------------------- C10 ----
\* the values of vals, each once, in the order of their first occurrence
FirstSeen(vals) ==
    LET at == Ascending({ i \in 1..Len(vals) :
                            \A j \in 1..(i - 1) : vals[j] # vals[i] })
    IN  [ k \in 1..Len(at) |-> vals[at[k]] ]

\* C10: positions (teams) of a career record lists the distinct positions
\* (teams) of the player's season records, each once, in the order in which
\* they first occur in the store, joined by ", ".
C10_PositionsAndTeamsInFirstSeenOrder ==
    AggregationDone =>
        \A j \in 1..Len(aggregated_players) :
           LET p == aggregated_players[j]
               seasons == StoreSeasons(p.link)
           IN  /\ p.positions =
                      Join(FirstSeen([ k \in 1..Len(seasons) |-> seasons[k].position ]), ", ")
               /\ p.teams =
                      Join(FirstSeen([ k \in 1..Len(seasons) |-> seasons[k].team ]), ", ")

\* a player with positions P, OF, P: listed as "P, OF", neither sorted nor
\* repeated
C10_Witness ==
    /\ AggregationDone
    /\ \E j \in 1..Len(aggregated_players) :
          /\ aggregated_players[j].seasons_played = U32(3)
          /\ aggregated_players[j].positions = "P, OF"
          /\ aggregated_players[j].teams = "NYY"

\* ---------------------------------------------------------------- C2 ----
\* the mathematical sum of vals[i] over the indices idx (hi not reduced)
RECURSIVE MathSum(_, _)
MathSum(idx, vals) ==
    IF idx = {} THEN U32(0)
    ELSE LET i == CHOOSE x \in idx : TRUE
         IN  AddMath(vals[i], MathSum(idx \ {i}, vals))

\* C2: every u32 total of a career record is the mathematical sum of the
\* stat over the player's season records, an absent value counting as 0.
C2_TotalsAreExactSums ==
    AggregationDone =>
        \A j \in 1..Len(aggregated_players) :
           LET p == aggregated_players[j]
               at == SeasonsOf(p.link)
           IN  /\ \A f \in CountingStats :
                     p["total_" \o f] =
                         MathSum(at, [ i \in 1..Len(clean_records) |->
                                         clean_records[i][f] ])
               /\ \A f \in OptionalStats :
                     p["total_" \o f] =
                         MathSum(at, [ i \in 1..Len(clean_records) |->
                                         unwrap_or(clean_records[i][f], U32(0)) ])

\* ---------------------------------------------------------------- C7 ----
\* C7: the career records are in the order in which their links first
\* appear in the season store.
C7_CareersInFirstAppearanceOrder ==
    AggregationDone =>
        [ j \in 1..Len(aggregated_players) |-> aggregated_players[j].link ]
            = FirstSeen([ i \in 1..Len(clean_records) |-> clean_records[i].link ])

\* ---------------------------------------------------------------- C1 ----
Least(idx) == CHOOSE i \in idx : \A j \in idx : i <= j
Greatest(idx) == CHOOSE i \in idx : \A j \in idx : j <= i

\* the text between the first and the last character that is no space
Trimmed(s) ==
    LET solid == { i \in 1..Len(s) : s[i] # " " }
    IN  IF solid = {} THEN << >> ELSE SubSeq(s, Least(solid), Greatest(solid))

DigitSet == { DigitChars[i] : i \in 1..10 }
IsDigits(t) == Len(t) >= 1 /\ \A i \in 1..Len(t) : t[i] \in DigitSet
Unsigned(t) == IF t # << >> /\ t[1] = "+" THEN Tail(t) ELSE t

\* a numeral without its leading zeros
Significant(d) ==
    LET nonzero == { i \in 1..Len(d) : d[i] # "0" }
    IN  IF nonzero = {} THEN << "0" >> ELSE SubSeq(d, Least(nonzero), Len(d))

U32MaxText == << "4", "2", "9", "4", "9", "6", "7", "2", "9", "5" >>

\* a <= b for numerals of one length
NumeralLeq(a, b) ==
    \/ a = b
    \/ \E i \in 1..Len(a) :
          /\ DigitVal(a[i]) < DigitVal(b[i])
          /\ \A j \in 1..(i - 1) : a[j] = b[j]

\* the texts that denote a u32: an optional "+" and digits, at most 2^32 - 1
IsU32Text(t) ==
    LET d == Unsigned(t)
    IN  /\ IsDigits(d)
        /\ \/ Len(Significant(d)) < Len(U32MaxText)
           \/ /\ Len(Significant(d)) = Len(U32MaxText)
              /\ NumeralLeq(Significant(d), U32MaxText)

\* the decimal numeral of a u32 (limb-wise division by ten)
RECURSIVE ToText(_)
ToText(v) ==
    LET rest == (v[1] % 10) * Limb + v[2]
        quotient == << v[1] \div 10, rest \div 10 >>
        digit == << DigitChars[(rest % 10) + 1] >>
    IN  IF quotient = U32(0) THEN digit ELSE ToText(quotient) \o digit

\* the texts that denote a decimal: an optional sign, digits and at most one
\* ".", with a digit on at least one side of it
Unsign(t) == IF t # << >> /\ t[1] \in { "+", "-" } THEN Tail(t) ELSE t
IsF64Text(t) ==
    LET body == Unsign(t)
        dots == { i \in 1..Len(body) : body[i] = "." }
    IN  /\ Cardinality(dots) <= 1
        /\ \A i \in (1..Len(body)) \ dots : body[i] \in DigitSet
        /\ Len(body) > Cardinality(dots)

\* the number a numeral denotes
RECURSIVE NatOf(_)
NatOf(d) ==
    IF d = << >> THEN 0 ELSE NatOf(SubSeq(d, 1, Len(d) - 1)) * 10 + DigitVal(d[Len(d)])

\* v is the value of the decimal text t, in lowest terms
F64Denotes(v, t) ==
    LET body == Unsign(t)
        dots == { i \in 1..Len(body) : body[i] = "." }
        places == IF dots = {} THEN 0 ELSE Len(body) - Least(dots)
        digits == SelectSeq(body, LAMBDA c : c # ".")
    IN  /\ v.neg = (t[1] = "-")
        /\ v.scale <= places
        /\ NatOf(digits) = v.mant * (10 ^ (places - v.scale))
        /\ v.scale = 0 \/ v.mant % 10 # 0

\* the text is neither blank nor the sentinel nor a number of the field's type
Junk(f, s) ==
    /\ Trimmed(s) # << >>
    /\ Trimmed(s) # Sentinel
    /\ IF f \in IntFields THEN ~IsU32Text(Trimmed(s)) ELSE ~IsF64Text(Trimmed(s))

SeasonRanking(table, metric) ==
    [ table |-> table, items |-> clean_records, metric |-> metric ]
CareerRanking(table, metric) ==
    [ table |-> table, items |-> aggregated_players, metric |-> metric ]
Rankings ==
    IF command = Some("homeruns")
    THEN { SeasonRanking(top_10_homeruns, "homeruns") }
         \cup (IF Len(clean_records) >= TopK
               THEN { CareerRanking(top_10_career_homeruns, "total_homeruns") }
               ELSE {})
    ELSE IF command = Some("seasons")
    THEN { SeasonRanking(top_10_hits, "hits") }
    ELSE IF command = Some("careers")
    THEN { CareerRanking(top_10_career_games, "total_games_played") }
    ELSE {}

Range(seq) == { seq[i] : i \in 1..Len(seq) }
PositionIn(seq, x) == CHOOSE i \in 1..Len(seq) : seq[i] = x

\* C5: a ranking of fewer than 10 records ends the program with a panic and
\* prints no table, whichever of the four rankings it is; no table that is
\* printed is shorter than 10.
C5_TooFewRecordsPanics ==
    /\ \A r \in Rankings :
          Len(r.items) < TopK => pc = "panicked" /\ r.table = None
    /\ \A table \in { top_10_homeruns, top_10_career_homeruns, top_10_hits,
                      top_10_career_games } :
          table # None => Len(table[1]) = TopK

\* the season table was printed, then the career ranking of fewer than 10
\* players panicked
C5_Witness ==
    /\ command = Some("homeruns")
    /\ Len(clean_records) >= TopK
    /\ Len(aggregated_players) < TopK
    /\ top_10_homeruns # None
    /\ top_10_career_homeruns = None
    /\ pc = "panicked"

\* C6: two records of a table with the same metric value are in the order
\* they have in the collection that was ranked.
C6_TiesKeepTheirOrder ==
    \A r \in Rankings :
        r.table # None =>
            \A i, j \in 1..Len(r.table[1]) :
                (i < j /\ r.table[1][i][r.metric] = r.table[1][j][r.metric]) =>
                    PositionIn(r.items, r.table[1][i])
                        < PositionIn(r.items, r.table[1][j])

\* a career table with tied players, over a career list that is not in the
\* order of the file
C6_Witness ==
    /\ top_10_career_games # None
    /\ \E i, j \in 1..TopK :
          /\ i < j
          /\ top_10_career_games[1][i].total_games_played
                 = top_10_career_games[1][j].total_games_played
    /\ \E k \in 1..(Len(aggregated_players) - 1) :
          aggregated_players[k].link > aggregated_players[k + 1].link

\* C9: a ranking of at least 10 records prints exactly 10 of them, in
\* non-increasing order of the metric, and no record left out has a greater
\* metric than a record of the table.
C9_TableIsTheTopTen ==
    \A r \in Rankings :
        Len(r.items) >= TopK =>
            /\ r.table # None
            /\ Len(r.table[1]) = TopK
            /\ Cardinality(Range(r.table[1])) = TopK
            /\ Range(r.table[1]) \subseteq Range(r.items)
            /\ \A i \in 1..(TopK - 1) :
                  Le32(r.table[1][i + 1][r.metric], r.table[1][i][r.metric])
            /\ \A x \in Range(r.items) \ Range(r.table[1]) :
                  \A y \in Range(r.table[1]) : Le32(x[r.metric], y[r.metric])

\* more than 10 seasons, the table holds both batting lines and leaves a
\* record out
C9_Witness ==
    /\ top_10_hits # None
    /\ Len(clean_records) > TopK
    /\ top_10_hits[1][1].hits # top_10_hits[1][TopK].hits
    /\ Range(clean_records) \ Range(top_10_hits[1]) # {}

====
